---- MODULE Spec2Model ----
(***************************************************************************)
(* A state-machine model of lib/iotransit-cp.js: the IoTransit client      *)
(* (constructor, connect, disconnect, sendCP) together with the callbacks  *)
(* it registers on the websocket client and on each websocket connection,  *)
(* and the reconnect timers it arms with setTimeout.                       *)
(*                                                                         *)
(* JavaScript objects are functions with a string domain: a property that  *)
(* is absent from the domain reads as undefined.  Values whose JavaScript  *)
(* type the code inspects (typeof, Array.isArray) are tagged records:      *)
(* [str |-> s], [arr |-> seq], [num |-> n], [obj |-> o], [null |-> TRUE].  *)
(***************************************************************************)
EXTENDS Naturals, Sequences, FiniteSets, TLC

VARIABLES
  constructed,   \* TRUE iff `new IoTransit(arg)` returned an object
  this,          \* the own data properties of the IoTransit object
  cp,            \* this.cp: was it assigned, the state of this.cp.connection,
                 \* and the url, subprotocol and origin of its last connect call
  opening,       \* number of WebSocketClient.connect calls still in flight
  stray,         \* connections that still carry this client's handlers but
                 \* are no longer referenced by this.cp.connection
  timers,        \* reconnect timers armed by setTimeout and not yet fired
  stopRequested, \* history: disconnect() was called while a timer was armed
                 \* and connect() has not been called since
  last           \* what the last reaction did: calls made, events emitted

vars == <<constructed, this, cp, opening, stray, timers, stopRequested, last>>

----------------------------------------------------------------------------
\* Bounds of the model.
MaxOpening == 2     \* in-flight transport opens
MaxTimers == 2      \* armed reconnect timers
MaxStray == 1       \* unreferenced connections of each kind
TickMs == 2500      \* how far one Tick step advances the clock

\* Module constants, lines 31-41.
AUTH_USER == "ext"
AUTH_PASS == "external"
CONTROLPLANE_URI == "127.0.0.1"
CONTROLPLANE_PORT == 10022
CONTROLPLANE_SUBPROTOCOL == "cp.iotransit.net"
CONTROLPLANE_ORIGIN == "control"
AUTO_RECONNECT == TRUE
RECONNECTION_TIMER == 5000
SECURE_WEBSOCKET == FALSE
EMIT_EVENTS_AS_CP == FALSE

----------------------------------------------------------------------------
\* JavaScript values.
Undefined == "undefined"

Has(o, k) == k \in DOMAIN o                      \* o.hasOwnProperty(k)
GetStr(o, k) == IF Has(o, k) THEN o[k] ELSE Undefined
GetNumStr(o, k) == IF Has(o, k) THEN ToString(o[k]) ELSE Undefined
IsTrue(o, k) == Has(o, k) /\ o[k] = TRUE         \* truthiness of a boolean property
OrStr(o, k, d) == IF Has(o, k) /\ o[k] # "" THEN o[k] ELSE d   \* o.k || d
OrNum(o, k, d) == IF Has(o, k) /\ o[k] # 0 THEN o[k] ELSE d    \* o.k || d
HasOr(o, k, d) == IF Has(o, k) THEN o[k] ELSE d  \* o.hasOwnProperty(k) ? o.k : d

Str(s) == [str |-> s]
Arr(a) == [arr |-> a]
Num(n) == [num |-> n]
Obj(o) == [obj |-> o]
Null == [null |-> TRUE]

----------------------------------------------------------------------------
\* constructor (options), lines 45-83.

\* A constructor without the hasOwnProperty('appletId') check of line 53.
ConstructorAcceptsAnyObject(arg) ==
  \/ Has(arg, "null")
  \/ ~Has(arg, "obj") /\ ~Has(arg, "str") /\ ~Has(arg, "null")

\* Lines 49-57 and the first read of this.options on line 58: the argument
\* is rejected when it is null/undefined, an object without the appletId
\* key, or neither an object nor a string (this.options stays undefined and
\* line 58 raises a TypeError).
ConstructorThrows(arg) ==
  \/ Has(arg, "null")
  \/ Has(arg, "obj") /\ ~Has(arg.obj, "appletId")
  \/ ~Has(arg, "obj") /\ ~Has(arg, "str") /\ ~Has(arg, "null")

\* Lines 51-57: this.options is the object passed in, or {appletId: string}.
InitialOptions(arg) ==
  IF Has(arg, "obj") THEN arg.obj ELSE [appletId |-> arg.str]

\* Lines 58-66: acceptTags from appletId, from a string, or from an array;
\* any other `accepts` value leaves acceptTags unassigned.
NormalizeAccepts(o) ==
  IF ~Has(o, "accepts") THEN ("acceptTags" :> <<o.appletId>>) @@ o
  ELSE IF Has(o.accepts, "str") THEN ("acceptTags" :> <<o.accepts.str>>) @@ o
  ELSE IF Has(o.accepts, "arr") THEN ("acceptTags" :> o.accepts.arr) @@ o
  ELSE o

\* Lines 67-76: every other option falls back to its default.
ApplyDefaults(o) ==
  ("authUser" :> OrStr(o, "authUser", AUTH_USER)) @@
  ("authPass" :> OrStr(o, "authPass", AUTH_PASS)) @@
  ("controlPlaneUri" :> OrStr(o, "controlPlaneUri", CONTROLPLANE_URI)) @@
  ("controlPlanePort" :> OrNum(o, "controlPlanePort", CONTROLPLANE_PORT)) @@
  ("controlPlaneSubProtocol" :>
      OrStr(o, "controlPlaneSubProtocol", CONTROLPLANE_SUBPROTOCOL)) @@
  ("controlPlaneOrigin" :> OrStr(o, "controlPlaneOrigin", CONTROLPLANE_ORIGIN)) @@
  ("autoReconnect" :> HasOr(o, "autoReconnect", AUTO_RECONNECT)) @@
  ("reconnectionTimer" :> OrNum(o, "reconnectionTimer", RECONNECTION_TIMER)) @@
  ("secureWebSocket" :> HasOr(o, "secureWebSocket", SECURE_WEBSOCKET)) @@
  ("emitEventsAsCP" :> HasOr(o, "emitEventsAsCP", EMIT_EVENTS_AS_CP)) @@
  o

\* The object a successful construction returns (lines 45-83).
constructor(arg) ==
  [ options |-> ApplyDefaults(NormalizeAccepts(InitialOptions(arg))),
    controlPlaneConnected |-> FALSE,
    authDevice |-> "",
    authDomain |-> "",
    authenticated |-> FALSE,
    sn |-> "",
    s2 |-> "" ]

\* The arguments the host constructs a client with.
ConfigObjects ==
  { [appletId |-> "A"],
    [appletId |-> "A", accepts |-> Str("B"), autoReconnect |-> FALSE],
    [appletId |-> "A", accepts |-> Arr(<<"A", "B">>), emitEventsAsCP |-> TRUE,
     reconnectionTimer |-> 2500],
    [appletId |-> "A", accepts |-> Arr(<< >>), reconnectionTimer |-> 0],
    [appletId |-> "A", accepts |-> Num(42), autoReconnect |-> FALSE] }

ConstructorArgs ==
  {Str("A"), Null, Num(7), Obj([accepts |-> Str("B")])} \cup {Obj(o) : o \in ConfigObjects}

----------------------------------------------------------------------------
\* Observations of one reaction.
NoFrame == [type |-> "none"]
NoTimer == [delay |-> 0, elapsed |-> 0]
NoRequest == [call |-> "none"]

Obs(op, threw, emitted, calls) ==
  [op |-> op, threw |-> threw, emitted |-> emitted, calls |-> calls,
   frame |-> NoFrame, timer |-> NoTimer, conn |-> "none", steps |-> << >>]

\* emitter.emit(name, arg): `on` is the object whose emit is called.
Emit(name, arg) == [on |-> "client", name |-> name, arg |-> arg]

----------------------------------------------------------------------------
Init ==
  \E arg \in ConstructorArgs :
    /\ constructed = ~ConstructorThrows(arg)
    /\ this = IF ConstructorThrows(arg) THEN << >> ELSE constructor(arg)
    /\ cp = [created |-> FALSE, connection |-> Undefined, request |-> NoRequest]
    /\ opening = 0
    /\ stray = [connected |-> 0, dropped |-> 0]
    /\ timers = << >>
    /\ stopRequested = FALSE
    /\ last = Obs("constructor", ConstructorThrows(arg), << >>, << >>)

----------------------------------------------------------------------------
\* The transport: WebSocketClient.connect(url, subprotocol, origin),
\* connection.sendUTF/send/drop, as the calls the client makes on them.

\* Lines 87-88: the scheme of the URL.
WebSocketPrefix(o) == IF IsTrue(o, "secureWebSocket") THEN "wss://" ELSE "ws://"

\* Lines 90, 96, 110: the arguments of this.cp.connect.  String
\* concatenation with an undefined option yields the text "undefined".
ConnectCall(o) ==
  [ call |-> "connect",
    url |-> <<WebSocketPrefix(o), GetStr(o, "controlPlaneUri"), ":",
              GetNumStr(o, "controlPlanePort"), "/">>,
    subprotocol |-> GetStr(o, "controlPlaneSubProtocol"),
    origin |-> GetStr(o, "controlPlaneOrigin") ]

\* JSON.stringify(value): the text of a frame that parses back to value.
JSONstringify(v) == [json |-> v]

\* Line 101: the authapp envelope; JSON.stringify leaves out a property
\* whose value is undefined.
AuthEnvelope(o) ==
  [ t |-> "authapp",
    p |-> (IF Has(o, "authUser") THEN ("user" :> o.authUser) ELSE << >>) @@
          (IF Has(o, "authPass") THEN ("pass" :> o.authPass) ELSE << >>) @@
          (IF Has(o, "acceptTags") THEN ("accept" :> o.acceptTags) ELSE << >>) ]

\* A connection that this.cp.connection stops referencing keeps its
\* handlers: it can still deliver message, error and close events.
Unreference(c, s) ==
  IF c = "connected" THEN [s EXCEPT !.connected = @ + 1]
  ELSE IF c = "dropped" THEN [s EXCEPT !.dropped = @ + 1]
  ELSE s

CanUnreference ==
  /\ cp.connection = "connected" => stray.connected < MaxStray
  /\ cp.connection = "dropped" => stray.dropped < MaxStray

AnyConnected == cp.connection = "connected" \/ stray.connected > 0

----------------------------------------------------------------------------
\* Reconnect timers, lines 94-98 and 108-112.

\* setTimeout(fn, delay) treats a delay that is not a number as 1 ms.
TimerDelay(o) == IF Has(o, "reconnectionTimer") THEN o.reconnectionTimer ELSE 1

\* A handler that forgot the reconnect.
ArmNever(self, ts) == ts

\* A handler that arms the timer twice.
ArmTwice(self, ts) ==
  IF IsTrue(self.options, "autoReconnect")
  THEN ts \o <<[delay |-> TimerDelay(self.options), elapsed |-> 0],
               [delay |-> TimerDelay(self.options), elapsed |-> 0]>>
  ELSE ts

\* A handler that arms the timer whatever autoReconnect is.
ArmAlways(self, ts) ==
  Append(ts, [delay |-> TimerDelay(self.options), elapsed |-> 0])

\* if (this.options.autoReconnect) setTimeout(..., this.options.reconnectionTimer)
\* (lines 94-98 in the connectFailed handler, 108-112 in the close handler).
ArmReconnect(self, ts) ==
  IF IsTrue(self.options, "autoReconnect")
  THEN Append(ts, [delay |-> TimerDelay(self.options), elapsed |-> 0])
  ELSE ts

CanArm == IsTrue(this.options, "autoReconnect") => Len(timers) < MaxTimers

Min(a, b) == IF a < b THEN a ELSE b

Remove(s, i) == SubSeq(s, 1, i - 1) \o SubSeq(s, i + 1, Len(s))

----------------------------------------------------------------------------
\* connect (), lines 85-99 up to the registration of the handlers.
connect ==
  /\ constructed
  /\ opening < MaxOpening
  /\ CanUnreference
  /\ cp' = [created |-> TRUE, connection |-> Undefined,
            request |-> ConnectCall(this.options)]
  /\ stray' = Unreference(cp.connection, stray)
  /\ opening' = opening + 1
  /\ stopRequested' = FALSE
  /\ last' = Obs("connect", FALSE, << >>, <<ConnectCall(this.options)>>)
  /\ UNCHANGED <<constructed, this, timers>>

\* The 'connectFailed' handler, lines 91-99.
onConnectFailed ==
  /\ constructed
  /\ opening > 0
  /\ CanArm
  /\ opening' = opening - 1
  /\ this' = [this EXCEPT !.controlPlaneConnected = FALSE]
  /\ timers' = ArmReconnect(this, timers)
  /\ last' = Obs("connectFailed", FALSE, <<Emit("connectionFailed", "err")>>, << >>)
  /\ UNCHANGED <<constructed, cp, stray, stopRequested>>

\* A 'connect' handler that authenticates only after announcing the
\* connection.
ConnectHandlerAuthLast ==
  <<"on error", "on close", "cp.connection =", "controlPlaneConnected = true",
    "emit connection", "on message", "sendUTF">>

\* The statements of the 'connect' handler in the order they run: lines
\* 101, 102, 105, 114, 115, 116, 117.
ConnectHandlerSteps ==
  <<"sendUTF", "on error", "on close", "cp.connection =",
    "controlPlaneConnected = true", "emit connection", "on message">>

\* The 'connect' handler, lines 100-116 (the handlers it registers on the
\* connection are onError, onClose and onMessage below).
onConnect ==
  /\ constructed
  /\ opening > 0
  /\ CanUnreference
  /\ opening' = opening - 1
  /\ cp' = [cp EXCEPT !.connection = "connected"]
  /\ stray' = Unreference(cp.connection, stray)
  /\ this' = [this EXCEPT !.controlPlaneConnected = TRUE]
  /\ last' = [Obs("connect_event", FALSE,
                  <<Emit("connection", "control plane connected")>>,
                  <<[call |-> "sendUTF",
                     data |-> JSONstringify(AuthEnvelope(this.options))]>>)
                EXCEPT !.steps = ConnectHandlerSteps]
  /\ UNCHANGED <<constructed, timers, stopRequested>>

\* The connection 'error' handler, lines 102-104.  It is a plain function,
\* so `this` inside it is the connection the event was emitted on: emit is
\* called on the connection, which has no 'connectionError' listener.
ErrorEmitter == "connection"

onError ==
  /\ constructed
  /\ AnyConnected
  /\ last' = Obs("error", FALSE,
                 <<[Emit("connectionError", "err") EXCEPT !.on = ErrorEmitter]>>, << >>)
  /\ UNCHANGED <<constructed, this, cp, opening, stray, timers, stopRequested>>

\* The connection 'close' handler, lines 105-113, for the close of the
\* connection src: the one this.cp.connection references, or a stray one.
onClose(src) ==
  /\ constructed
  /\ CanArm
  /\ CASE src = "cp" ->
            /\ cp.connection \in {"connected", "dropped"}
            /\ cp' = [cp EXCEPT !.connection = "closed"]
            /\ stray' = stray
       [] src = "strayConnected" ->
            /\ stray.connected > 0
            /\ stray' = [stray EXCEPT !.connected = @ - 1]
            /\ cp' = cp
       [] OTHER ->
            /\ stray.dropped > 0
            /\ stray' = [stray EXCEPT !.dropped = @ - 1]
            /\ cp' = cp
  /\ this' = [this EXCEPT !.controlPlaneConnected = FALSE]
  /\ timers' = ArmReconnect(this, timers)
  /\ last' = [Obs("close", FALSE,
                  <<Emit("connectionClose", "control plane connection closed")>>, << >>)
                EXCEPT !.conn = IF src = "cp" THEN cp.connection
                                ELSE IF src = "strayConnected" THEN "connected"
                                ELSE "dropped"]
  /\ UNCHANGED <<constructed, opening, stopRequested>>

\* The setTimeout callback, lines 95-97 and 109-111.
reconnectTimeout(i) ==
  /\ constructed
  /\ opening < MaxOpening
  /\ timers[i].elapsed >= timers[i].delay
  /\ timers' = Remove(timers, i)
  /\ opening' = opening + 1
  /\ cp' = [cp EXCEPT !.request = ConnectCall(this.options)]
  /\ last' = [Obs("timer", FALSE, << >>, <<ConnectCall(this.options)>>)
                EXCEPT !.timer = timers[i]]
  /\ UNCHANGED <<constructed, this, stray, stopRequested>>

RECURSIVE Advance(_)
Advance(ts) ==
  IF ts = << >> THEN << >>
  ELSE <<[Head(ts) EXCEPT !.elapsed = Min(@ + TickMs, Head(ts).delay)]>>
         \o Advance(Tail(ts))

\* Time passes: every armed timer gets TickMs closer to firing.
Tick ==
  /\ constructed
  /\ \E i \in 1..Len(timers) : timers[i].elapsed < timers[i].delay
  /\ timers' = Advance(timers)
  /\ last' = Obs("tick", FALSE, << >>, << >>)
  /\ UNCHANGED <<constructed, this, cp, opening, stray, stopRequested>>

----------------------------------------------------------------------------
\* disconnect (), lines 155-161.
DisconnectThrows == this.controlPlaneConnected /\ cp.connection = Undefined

DisconnectDrops == this.controlPlaneConnected /\ cp.connection # Undefined

\* A disconnect() that cancelled the pending timers.
TimersCancelled == << >>

\* disconnect() never touches the timers: no handle of setTimeout is kept.
TimersAfterDisconnect == timers

disconnect ==
  /\ constructed
  /\ cp' = IF DisconnectDrops /\ cp.connection = "connected"
           THEN [cp EXCEPT !.connection = "dropped"] ELSE cp
  /\ timers' = TimersAfterDisconnect
  /\ stopRequested' = (stopRequested \/ timers # << >>)
  /\ last' = Obs("disconnect", DisconnectThrows, << >>,
                 IF DisconnectDrops THEN <<[call |-> "drop"]>> ELSE << >>)
  /\ UNCHANGED <<constructed, this, opening, stray>>

\* sendCP (sendMsg), lines 163-170.  Before the first connect() this.cp is
\* undefined and reading this.cp.connection raises a TypeError.
SendThrows == ~cp.created

SendForwards == cp.created /\ cp.connection = "connected"

SendMsgs == {[t |-> "A", p |-> [cmd |-> "foo"]]}

sendCP(sendMsg) ==
  /\ constructed
  /\ last' = Obs("sendCP", SendThrows,
                 IF SendThrows \/ SendForwards THEN << >>
                 ELSE <<Emit("sendError", "control plane not connected")>>,
                 IF SendForwards THEN <<[call |-> "send", data |-> JSONstringify(sendMsg)]>>
                 ELSE << >>)
  /\ UNCHANGED <<constructed, this, cp, opening, stray, timers, stopRequested>>

----------------------------------------------------------------------------
\* The connection 'message' handler, lines 117-151.

\* Frames the transport delivers: a text frame whose utf8Data is JSON text
\* (the text of JSON.stringify(value)), a text frame that is not JSON, or a
\* binary frame.
Utf8(data) == [type |-> "utf8", utf8Data |-> data]
BinaryFrame == [type |-> "binary", binaryData |-> <<1, 2>>]

JSONparseThrows(text) == ~Has(text, "json")
JSONparse(text) == text.json

\* A router without the tag filter.
AcceptedAlways(o, t) == TRUE

\* Line 129: this.options.acceptTags.indexOf(rcvMsg.t) !== -1 || rcvMsg.t === 'all'
Accepted(o, t) ==
  (\E i \in 1..Len(o.acceptTags) : o.acceptTags[i] = t) \/ t = "all"

\* A setconfig that treats a repeated value as a toggle: a field that
\* already holds the patched value is deleted from the object.
SetConfigToggle(self, p) ==
  [k \in (((DOMAIN p) \ {"cmd"}) \cup (DOMAIN self))
          \ {j \in (DOMAIN p) \ {"cmd"} : Has(self, j) /\ self[j] = p[j]} |->
     IF Has(p, k) /\ k # "cmd" THEN p[k] ELSE self[k]]

\* Lines 134-138: every own property of the payload but cmd is assigned
\* to the property of the same name of the client object.
SetConfig(self, p) == [k \in (DOMAIN p) \ {"cmd"} |-> p[k]] @@ self

Result(self, emitted, threw) == [this |-> self, emitted |-> emitted, threw |-> threw]

\* Lines 120-146: the switch on rcvMsg.t.
HandleEnvelope(self, rcvMsg) ==
  IF GetStr(rcvMsg, "t") = "evt"
  THEN IF IsTrue(self.options, "emitEventsAsCP")
       THEN Result(self, <<Emit("cpMessage", rcvMsg)>>, FALSE)
       ELSE IF ~Has(rcvMsg, "p")
       THEN Result(self, << >>, TRUE)           \* rcvMsg.p.cmd of undefined
       ELSE Result(self,
                   <<Emit(GetStr(rcvMsg.p, "cmd"),
                          [args |-> GetStr(rcvMsg.p, "args"),
                           dto |-> GetStr(rcvMsg.p, "dto")])>>,
                   FALSE)
  ELSE IF ~Has(self.options, "acceptTags")
  THEN Result(self, << >>, TRUE)                \* acceptTags.indexOf of undefined
  ELSE IF ~Accepted(self.options, GetStr(rcvMsg, "t"))
  THEN Result(self, << >>, FALSE)
  ELSE IF ~Has(rcvMsg, "p")
  THEN Result(self, << >>, TRUE)                \* rcvMsg.p.cmd of undefined
  ELSE Result(IF GetStr(rcvMsg.p, "cmd") = "setconfig"
              THEN SetConfig(self, rcvMsg.p) ELSE self,
              <<Emit("cpMessage", rcvMsg)>>, FALSE)

\* Lines 117-151.
MessageHandler(self, message) ==
  IF message.type = "utf8"
  THEN IF JSONparseThrows(message.utf8Data)
       THEN Result(self, << >>, TRUE)
       ELSE HandleEnvelope(self, JSONparse(message.utf8Data))
  ELSE Result(self, << >>, FALSE)               \* binary: console.log only

\* The envelopes the control plane sends.
OptionsPatch == [autoReconnect |-> TRUE, reconnectionTimer |-> 2500]

EventPayloads ==
  { [cmd |-> "x", args |-> "a1", dto |-> "d1"],
    [args |-> "a1"],
    [cmd |-> "setconfig", sn |-> "XYZ", foo |-> "1"] }

CommandPayloads ==
  { [cmd |-> "loglevels"],
    [cmd |-> "foo"],
    [cmd |-> "setconfig", sn |-> "XYZ", foo |-> "1"],
    [cmd |-> "setconfig", controlPlaneConnected |-> FALSE],
    [cmd |-> "setconfig", controlPlaneConnected |-> TRUE],
    [cmd |-> "setconfig", options |-> OptionsPatch] }

Tags == {"all", "B"}

Envelopes ==
  {[t |-> "evt", p |-> p] : p \in EventPayloads}
    \cup {[t |-> t, p |-> p] : t \in Tags, p \in CommandPayloads}
    \cup {[t |-> t] : t \in Tags \cup {"evt"}}
    \cup {[p |-> [cmd |-> "foo"]]}

Frames ==
  {Utf8(JSONstringify(e)) : e \in Envelopes}
    \cup {Utf8([text |-> "not json"]), BinaryFrame}

\* The frames that reach the fields the connection lifecycle reads.
LifecycleFrames ==
  { Utf8(JSONstringify([t |-> "evt", p |-> [cmd |-> "x", args |-> "a1", dto |-> "d1"]])),
    Utf8(JSONstringify([t |-> "all", p |-> [cmd |-> "setconfig", controlPlaneConnected |-> TRUE]])),
    Utf8(JSONstringify([t |-> "all", p |-> [cmd |-> "setconfig", options |-> OptionsPatch]])) }

onMessage(message) ==
  /\ constructed
  /\ AnyConnected
  /\ this' = MessageHandler(this, message).this
  /\ last' = [Obs("message", MessageHandler(this, message).threw,
                  MessageHandler(this, message).emitted, << >>)
                EXCEPT !.frame = message]
  /\ UNCHANGED <<constructed, cp, opening, stray, timers, stopRequested>>

----------------------------------------------------------------------------
\* The whole client: every host call, transport event and timer, with the
\* frames that touch the lifecycle.
Next ==
  \/ connect
  \/ disconnect
  \/ \E m \in SendMsgs : sendCP(m)
  \/ onConnectFailed
  \/ onConnect
  \/ onError
  \/ \E src \in {"cp", "strayConnected", "strayDropped"} : onClose(src)
  \/ \E f \in LifecycleFrames : onMessage(f)
  \/ \E i \in 1..Len(timers) : reconnectTimeout(i)
  \/ Tick

Spec == Init /\ [][Next]_vars

\* The message router: one connect() call by the host, the connection it
\* opens and the automatic reconnects after it, with every frame.
RouterNext ==
  \/ ~cp.created /\ connect
  \/ onConnectFailed
  \/ onConnect
  \/ onClose("cp")
  \/ \E f \in Frames : onMessage(f)
  \/ \E i \in 1..Len(timers) : reconnectTimeout(i)
  \/ Tick

RouterSpec == Init /\ [][RouterNext]_vars

----------------------------------------------------------------------------
\* Vocabulary of the claims.

\* The text frame of the last reaction carried a JSON envelope.
IsEnvelopeFrame(f) == f.type = "utf8" /\ Has(f.utf8Data, "json")
EnvelopeOf(f) == f.utf8Data.json
TypeOf(e) == GetStr(e, "t")
PayloadOf(e) == IF Has(e, "p") THEN e.p ELSE << >>
CmdOf(e) == GetStr(PayloadOf(e), "cmd")

\* acceptTags as a set; an unassigned acceptTags holds no tag.
TagSet(o) ==
  IF Has(o, "acceptTags") THEN {o.acceptTags[i] : i \in 1..Len(o.acceptTags)} ELSE {}

EmittedOnClient(name) ==
  \E i \in 1..Len(last.emitted) :
    last.emitted[i].on = "client" /\ last.emitted[i].name = name

IsConnectCall(c) == c.call = "connect"

----------------------------------------------------------------------------
\* C1 (as claimed): once disconnect() has been called while a reconnect
\* timer was pending, no timer fires into a Transport connect call until the
\* host calls connect() again.
C1_NoReconnectAfterDisconnect ==
  [][stopRequested => last'.op # "timer"]_vars

\* C1 (amended): disconnect() leaves every pending reconnect timer armed and
\* makes no Transport connect call itself; a timer that was pending when
\* disconnect() was called still fires, and makes exactly one Transport
\* connect call.
C1_DisconnectKeepsTimer ==
  [][ /\ last'.op = "disconnect" =>
           /\ timers' = timers
           /\ opening' = opening
           /\ \A i \in 1..Len(last'.calls) : ~IsConnectCall(last'.calls[i])
      /\ (stopRequested /\ last'.op = "timer") =>
           /\ last'.calls = <<ConnectCall(this.options)>>
           /\ opening' = opening + 1
           /\ Len(timers') = Len(timers) - 1 ]_vars

\* A reconnect timer fired after disconnect() was called while it was armed.
C1_Witness ==
  stopRequested /\ last.op = "timer" /\ opening > 0

----------------------------------------------------------------------------
\* C2 (as claimed): disconnect() in the Connected state drops the transport
\* connection, and the close that results leaves connected=false and arms
\* no reconnect timer, whatever autoReconnect is.
C2_DisconnectEndsReconnect ==
  [][ /\ (last'.op = "disconnect" /\ this.controlPlaneConnected
            /\ cp.connection = "connected") =>
           (last'.calls = <<[call |-> "drop"]>> /\ cp'.connection = "dropped")
      /\ (last'.op = "close" /\ last'.conn = "dropped") =>
           (~this'.controlPlaneConnected /\ timers' = timers) ]_vars

\* C2 (amended): disconnect() in the Connected state drops the transport
\* connection, and the close that results leaves connected=false and emits
\* connectionClose; it arms no reconnect timer only if autoReconnect is
\* false: with autoReconnect=true it arms exactly one timer with the
\* configured delay, so the client reconnects by itself.
C2_DisconnectThenClose ==
  [][ /\ (last'.op = "disconnect" /\ this.controlPlaneConnected
            /\ cp.connection = "connected") =>
           (last'.calls = <<[call |-> "drop"]>> /\ cp'.connection = "dropped")
      /\ (last'.op = "close" /\ last'.conn = "dropped") =>
           /\ ~this'.controlPlaneConnected
           /\ last'.emitted = <<Emit("connectionClose", "control plane connection closed")>>
           /\ IF IsTrue(this.options, "autoReconnect")
              THEN timers' = Append(timers, [delay |-> this.options.reconnectionTimer,
                                             elapsed |-> 0])
              ELSE timers' = timers ]_vars

\* The close of a connection dropped by disconnect() armed a timer.
C2_Witness ==
  /\ last.op = "close" /\ last.conn = "dropped"
  /\ IsTrue(this.options, "autoReconnect")
  /\ timers # << >> /\ timers[Len(timers)].elapsed = 0
  /\ ~this.controlPlaneConnected

----------------------------------------------------------------------------
\* C3: sendCP(msg) while no transport connection is open emits sendError on
\* the client, forwards nothing to the transport and does not throw.
C3_SendWhileNotConnected ==
  (constructed /\ last.op = "sendCP" /\ ~AnyConnected) =>
    /\ ~last.threw
    /\ last.calls = << >>
    /\ EmittedOnClient("sendError")

----------------------------------------------------------------------------
\* C4: every transport close while autoReconnect is true arms exactly one
\* reconnect timer, with delay reconnectionTimer; a timer fires only once
\* its delay has elapsed, and firing makes exactly one Transport connect
\* call.
C4_OneReconnectPerClose ==
  [][ /\ (last'.op = "close" /\ IsTrue(this.options, "autoReconnect")) =>
           timers' = Append(timers, [delay |-> this.options.reconnectionTimer,
                                     elapsed |-> 0])
      /\ last'.op = "timer" =>
           /\ last'.timer.elapsed >= last'.timer.delay
           /\ \E i \in 1..Len(timers) :
                timers[i] = last'.timer /\ timers' = Remove(timers, i)
           /\ last'.calls = <<ConnectCall(this.options)>>
           /\ opening' = opening + 1 ]_vars

\* The transport closed an open connection and the handler armed a timer.
C4_Witness ==
  /\ last.op = "close" /\ last.conn = "connected"
  /\ IsTrue(this.options, "autoReconnect")
  /\ timers # << >>
  /\ timers[Len(timers)] = [delay |-> RECONNECTION_TIMER, elapsed |-> 0]

----------------------------------------------------------------------------
\* C5: a text envelope whose type is not "evt", not "all" and not one of
\* acceptTags emits nothing and changes nothing of the client (no field of
\* the object, no connection, no pending open, no timer), whatever payload
\* it carries.
C5_FilteredEnvelope ==
  [][ (/\ last'.op = "message"
       /\ IsEnvelopeFrame(last'.frame)
       /\ TypeOf(EnvelopeOf(last'.frame)) \notin {"evt", "all"} \cup TagSet(this.options))
      => /\ last'.emitted = << >>
         /\ this' = this
         /\ UNCHANGED <<cp, opening, stray, timers>> ]_vars

\* A setconfig envelope addressed to a tag the client does not accept was
\* delivered and left sn as constructed.
C5_Witness ==
  /\ last.op = "message"
  /\ IsEnvelopeFrame(last.frame)
  /\ TypeOf(EnvelopeOf(last.frame)) = "B"
  /\ CmdOf(EnvelopeOf(last.frame)) = "setconfig"
  /\ Has(PayloadOf(EnvelopeOf(last.frame)), "sn")
  /\ TagSet(this.options) = {"A"}
  /\ this.sn = ""
  /\ last.emitted = << >>

----------------------------------------------------------------------------
\* C6: a text envelope that carries a payload object and whose type is not
\* "evt" and is "all" or one of acceptTags has, when its cmd is setconfig, every payload field but cmd
\* written to the client under the same name, and for every cmd emits
\* exactly one cpMessage (rawEnvelope) event carrying the envelope.
C6_AcceptedCommand ==
  [][ (/\ last'.op = "message"
       /\ IsEnvelopeFrame(last'.frame)
       /\ Has(EnvelopeOf(last'.frame), "p")
       /\ TypeOf(EnvelopeOf(last'.frame)) # "evt"
       /\ TypeOf(EnvelopeOf(last'.frame)) \in {"all"} \cup TagSet(this.options))
      => /\ last'.emitted = <<Emit("cpMessage", EnvelopeOf(last'.frame))>>
         /\ CmdOf(EnvelopeOf(last'.frame)) = "setconfig" =>
              \A k \in (DOMAIN PayloadOf(EnvelopeOf(last'.frame))) \ {"cmd"} :
                Has(this', k) /\ this'[k] = PayloadOf(EnvelopeOf(last'.frame))[k] ]_vars

----------------------------------------------------------------------------
\* C7: a text envelope of type "evt" changes no field of the client and
\* emits exactly one event: cpMessage (rawEnvelope) with the envelope when
\* emitEventsAsCP is true, else the event named payload.cmd with
\* {args: payload.args, dto: payload.dto}.
C7_EventEnvelope ==
  [][ (/\ last'.op = "message"
       /\ IsEnvelopeFrame(last'.frame)
       /\ TypeOf(EnvelopeOf(last'.frame)) = "evt")
      => /\ this' = this
         /\ last'.emitted =
              IF IsTrue(this.options, "emitEventsAsCP")
              THEN <<Emit("cpMessage", EnvelopeOf(last'.frame))>>
              ELSE <<Emit(CmdOf(EnvelopeOf(last'.frame)),
                          [args |-> GetStr(PayloadOf(EnvelopeOf(last'.frame)), "args"),
                           dto |-> GetStr(PayloadOf(EnvelopeOf(last'.frame)), "dto")])>> ]_vars

----------------------------------------------------------------------------
\* C8: a transport error on an open connection makes the client emit
\* connectionError.
C8_ErrorReported ==
  last.op = "error" => EmittedOnClient("connectionError")

----------------------------------------------------------------------------
\* C9: the message handler completes normally for every text envelope.
C9_HandlerNeverThrows ==
  (last.op = "message" /\ IsEnvelopeFrame(last.frame)) => ~last.threw

----------------------------------------------------------------------------
\* C10: acceptTags is a non-empty list of tags in every state of a
\* constructed client.
C10_AcceptTagsNonEmpty ==
  constructed =>
    (Has(this.options, "acceptTags") /\ Len(this.options.acceptTags) > 0)

----------------------------------------------------------------------------
\* How many times in a row the same envelope is delivered.
MaxApply == 3

\* The client object after the same frame was delivered n times in a row.
RECURSIVE ApplyN(_, _, _)
ApplyN(self, message, n) ==
  IF n = 0 THEN self
  ELSE ApplyN(MessageHandler(self, message).this, message, n - 1)

IsSetconfigFrame(f) ==
  IsEnvelopeFrame(f) /\ CmdOf(EnvelopeOf(f)) = "setconfig"

\* C11: from every reachable state of the client and for every setconfig
\* envelope, delivering the envelope n >= 1 times in a row leaves the
\* client object exactly as delivering it once does.
C11_SetconfigIdempotent ==
  constructed =>
    \A f \in Frames :
      IsSetconfigFrame(f) =>
        \A n \in 1..MaxApply :
          ApplyN(this, f, n) = MessageHandler(this, f).this

\* A setconfig patch was just applied to the client (sn was written), and
\* the same frame delivered again would be applied again.
C11_Witness ==
  /\ last.op = "message"
  /\ IsSetconfigFrame(last.frame)
  /\ last.emitted = <<Emit("cpMessage", EnvelopeOf(last.frame))>>
  /\ Has(PayloadOf(EnvelopeOf(last.frame)), "sn")
  /\ this.sn = "XYZ"
  /\ MessageHandler(this, last.frame).emitted = last.emitted

----------------------------------------------------------------------------
\* The construction arguments of the claim C12: null or undefined, an
\* object without the appletId key, or neither a string nor an object.
LacksAppletId(arg) ==
  \/ Has(arg, "null")
  \/ Has(arg, "obj") /\ ~Has(arg.obj, "appletId")
  \/ ~Has(arg, "str") /\ ~Has(arg, "obj")

\* C12: construction fails for every argument that lacks an appletId and
\* for no other; a failed construction leaves no client, no Transport and
\* no pending open, and nothing can happen to it afterwards; a client that
\* was constructed has options.appletId.
C12_NoClientWithoutAppletId ==
  /\ \A arg \in ConstructorArgs : LacksAppletId(arg) <=> ConstructorThrows(arg)
  /\ ~constructed =>
       /\ last.op = "constructor" /\ last.threw
       /\ this = << >>
       /\ ~cp.created /\ cp.connection = Undefined
       /\ opening = 0 /\ timers = << >>
       /\ last.calls = << >>
  /\ (constructed /\ last.op = "constructor") =>
       (~last.threw /\ Has(this.options, "appletId"))

\* A construction failed: the constructor threw and there is no client.
C12_Witness ==
  last.op = "constructor" /\ last.threw /\ ~constructed

----------------------------------------------------------------------------
\* C13: in every reachable state at most one reconnect timer is armed.
C13_AtMostOneTimer ==
  Len(timers) <= 1

----------------------------------------------------------------------------
\* Transport connections of this client that are open or being opened.
ActiveTransports ==
  opening + (IF cp.connection = "connected" THEN 1 ELSE 0) + stray.connected

\* C14: in every reachable state the client has at most one transport
\* connection open or being opened, and no open connection other than the
\* one this.cp.connection references routes frames to the client.
C14_OneActiveTransport ==
  ActiveTransports <= 1 /\ stray.connected = 0

----------------------------------------------------------------------------
\* Position of a statement in the order a handler ran its statements.
Pos(steps, x) == CHOOSE i \in 1..Len(steps) : steps[i] = x

\* The payload p carries user, pass and accept as the options hold them
\* (JSON leaves out a property that is undefined) and nothing else.
IsAuthPayload(p, o) ==
  /\ DOMAIN p \subseteq {"user", "pass", "accept"}
  /\ Has(p, "user") <=> Has(o, "authUser")
  /\ Has(p, "user") => p.user = o.authUser
  /\ Has(p, "pass") <=> Has(o, "authPass")
  /\ Has(p, "pass") => p.pass = o.authPass
  /\ Has(p, "accept") <=> Has(o, "acceptTags")
  /\ Has(p, "accept") => p.accept = o.acceptTags

----------------------------------------------------------------------------
\* The client is Connecting: one transport open in flight, no connection
\* and no reconnect timer.
Connecting ==
  /\ opening = 1
  /\ cp.connection = Undefined
  /\ stray.connected = 0 /\ stray.dropped = 0
  /\ timers = << >>

\* C16: when disconnect() has just been called in the Connecting state, a
\* success of the open in flight sends no authapp envelope, leaves
\* connected false and emits no connection event, and a failure of that
\* open arms no reconnect timer.
C16_DisconnectWhileConnecting ==
  [][ (last.op = "disconnect" /\ Connecting) =>
        /\ last'.op = "connect_event" =>
             /\ last'.calls = << >>
             /\ last'.emitted = << >>
             /\ ~this'.controlPlaneConnected
        /\ last'.op = "connectFailed" => timers' = << >> ]_vars

----------------------------------------------------------------------------
\* C17: a reconnect attempt (the open a fired timer makes after a failed
\* open or a close, autoReconnect being true and disconnect() never
\* called) uses the same URL, subprotocol and origin as the open attempt
\* before it.
C17_ReconnectSameParameters ==
  [][ last'.op = "timer" => last'.calls = <<cp.request>> ]_vars

----------------------------------------------------------------------------
\* The client is Connected: one open connection, referenced by
\* this.cp.connection (or Closing: that connection dropped and not yet
\* closed), nothing else in flight or armed.
ConnectedOrClosing ==
  /\ opening = 0
  /\ cp.connection \in {"connected", "dropped"}
  /\ stray.connected = 0 /\ stray.dropped = 0
  /\ timers = << >>

\* The client is Disconnected: no connection, no open in flight, no timer.
Disconnected ==
  /\ opening = 0
  /\ cp.connection \in {Undefined, "closed"}
  /\ stray.connected = 0 /\ stray.dropped = 0
  /\ timers = << >>

\* C18: while autoReconnect is false, a failed open (from Connecting) and a
\* close (from Connected) leave the client Disconnected with the connected
\* flag false, emit exactly one connectionFailed, respectively
\* connectionClose, arm no timer and make no transport call; from
\* Disconnected only a host connect() opens a transport again.
C18_NoReconnectWhenDisabled ==
  [][ ~IsTrue(this.options, "autoReconnect") =>
        /\ last'.op = "connectFailed" =>
             /\ last'.emitted = <<Emit("connectionFailed", "err")>>
             /\ ~this'.controlPlaneConnected
             /\ timers' = timers
             /\ last'.calls = << >>
             /\ Connecting => Disconnected'
        /\ last'.op = "close" =>
             /\ last'.emitted = <<Emit("connectionClose", "control plane connection closed")>>
             /\ ~this'.controlPlaneConnected
             /\ timers' = timers
             /\ last'.calls = << >>
             /\ ConnectedOrClosing => Disconnected'
        /\ (Disconnected /\ opening' > opening) => last'.op = "connect" ]_vars

\* With autoReconnect false the only open in flight failed: the client is
\* Disconnected and connectionFailed was emitted.
C18_Witness ==
  /\ last.op = "connectFailed"
  /\ Has(this.options, "autoReconnect") /\ this.options.autoReconnect = FALSE
  /\ Disconnected
  /\ ~this.controlPlaneConnected
  /\ last.emitted = <<Emit("connectionFailed", "err")>>

----------------------------------------------------------------------------
\* C19: a client whose options are still those of its construction from a
\* configuration object that names reconnectionTimer (0 included) arms
\* every reconnect timer, after a close and after a failed open, with
\* exactly the configured delay.
C19_ConfiguredDelay ==
  [][ \A arg \in ConstructorArgs :
        (/\ Has(arg, "obj")
         /\ Has(arg.obj, "reconnectionTimer")
         /\ ~ConstructorThrows(arg)
         /\ this.options = constructor(arg).options
         /\ IsTrue(this.options, "autoReconnect")
         /\ last'.op \in {"close", "connectFailed"})
        => timers' = Append(timers, [delay |-> arg.obj.reconnectionTimer,
                                     elapsed |-> 0]) ]_vars

----------------------------------------------------------------------------
\* C20: in every reachable state of a constructed client the connected
\* flag (controlPlaneConnected) is true exactly when a transport
\* connection is open.
C20_FlagMatchesTransport ==
  constructed => (this.controlPlaneConnected <=> cp.connection = "connected")

====
